---- MODULE Spec2Model ----
(***************************************************************************)
(* A model of package nap (src/db.go): a logical database DB over a list   *)
(* of physical databases, pdbs[0] the master and pdbs[1..] the slaves, and *)
(* a counter that spreads reads over the slaves.                           *)
(*                                                                         *)
(* One main goroutine opens the DB, then pings it, tunes its pools and     *)
(* closes it; the callers in Callers issue routed operations on the opened *)
(* DB concurrently.  scatter(n, fn) is not part of db.go: it is modelled   *)
(* from the description of the fan-out helper (Run) in the specification.  *)
(***************************************************************************)
EXTENDS Integers, Sequences, FiniteSets

VARIABLES
    dsn,      \* the dataSourceNames argument of Open, a sequence of characters
    pc,       \* where the main goroutine is
    pdbs,     \* DB.pdbs: index -> physical database (NilConn when unset)
    count,    \* DB.count
    ret,      \* what Open returned: [db, err]
    sgState,  \* scatter: "idle" | "running" | "returned"
    sgFn,     \* scatter: the work function of the running fan-out
    tasks,    \* scatter: index -> "spawned" | "done"
    invoked,  \* scatter: index -> number of times fn(index) was invoked
    errs,     \* scatter: index -> the error fn(index) returned
    sgErr,    \* scatter: the error it returned
    call,     \* caller -> the routed operation it has in flight
    picks     \* the selections made by slave(), in the order of the atomic adds

sg == <<sgState, sgFn, tasks, invoked, errs, sgErr>>
vars == <<dsn, pc, pdbs, count, ret, sg, call, picks>>

----------------------------------------------------------------------------
(* Bounds of the model *)

MaxDsnLen == 2
\* longest dataSourceNames of the DB the routed operations alone run on
MaxRoutingDsnLen == 3
MaxSelects == 3
CounterBits == 3
\* most tasks of a scatter run on its own
MaxTasks == 4

Chars == {"a", ";"}
Callers == {"c1", "c2"}
PoolValues == {1}

----------------------------------------------------------------------------
(* Values *)

Sep == ";"
NoErr == [fn |-> "nil", i |-> -1]
NilConn == [nil |-> TRUE]
NilDB == "nil"
TheDB == "db"
Idle == [pc |-> "idle"]

Pow2(k) == 2 ^ k
Modulus == Pow2(CounterBits)

Err(fn, i) == [fn |-> fn, i |-> i]

\* All sequences over S of length at most k.
RECURSIVE SeqsUpTo(_, _)
SeqsUpTo(S, k) ==
    IF k = 0 THEN {<<>>}
    ELSE LET shorter == SeqsUpTo(S, k - 1)
         IN  shorter \cup {Append(s, c) : s \in {t \in shorter : Len(t) = k - 1}, c \in S}

----------------------------------------------------------------------------
(* strings.Split(dataSourceNames, ";") *)

\* a split that drops the empty segments, as strings.FieldsFunc would
RECURSIVE FieldsFrom(_, _, _, _)
FieldsFrom(s, i, cur, acc) ==
    IF i > Len(s) THEN (IF cur = <<>> THEN acc ELSE Append(acc, cur))
    ELSE IF s[i] = Sep
         THEN FieldsFrom(s, i + 1, <<>>, IF cur = <<>> THEN acc ELSE Append(acc, cur))
    ELSE FieldsFrom(s, i + 1, Append(cur, s[i]), acc)

SplitFields(s) == FieldsFrom(s, 1, <<>>, <<>>)

RECURSIVE SplitFrom(_, _, _, _)
SplitFrom(s, i, cur, acc) ==
    IF i > Len(s) THEN Append(acc, cur)
    ELSE IF s[i] = Sep THEN SplitFrom(s, i + 1, <<>>, Append(acc, cur))
    ELSE SplitFrom(s, i + 1, Append(cur, s[i]), acc)

Split(s) == SplitFrom(s, 1, <<>>, <<>>)

\* conns[i] misread: every task opens the first name
ConnsAtFirst(conns, i) == conns[1]

\* conns[i], with the indices of the source (from 0)
ConnsAt(conns, i) == conns[i + 1]

----------------------------------------------------------------------------
(* The physical databases (sqlx.DB), opaque but for what the DB does to them *)

\* no pool setting given yet
NoPool == [fn |-> "none", n |-> 0]

\* sqlx.Open(driverName, target) when it succeeds
SqlxOpen(target) ==
    [nil |-> FALSE, dsn |-> target, closes |-> 0, pool |-> NoPool]

Len0(p) == Cardinality(DOMAIN p)
Indices(n) == 0 .. (n - 1)

---------------------------------------------------------------------------------------------------------------------------------------------------
(* scatter(n, fn): one task per index, joined before the return *)

NoTasks == [i \in {} |-> "done"]
NoCounts == [i \in {} |-> 0]
NoErrs == [i \in {} |-> NoErr]

\* scatter is called: every task is started
ScatterStart(n, fn) ==
    /\ sgState' = "running"
    /\ sgFn' = fn
    /\ tasks' = [i \in Indices(n) |-> "spawned"]
    /\ invoked' = [i \in Indices(n) |-> 0]
    /\ errs' = [i \in Indices(n) |-> NoErr]
    /\ sgErr' = NoErr

\* task i has run fn(i), which returned e
ScatterTaskDone(i, e) ==
    /\ tasks' = [tasks EXCEPT ![i] = "done"]
    /\ invoked' = [invoked EXCEPT ![i] = @ + 1]
    /\ errs' = [errs EXCEPT ![i] = e]
    /\ UNCHANGED <<sgState, sgFn, sgErr>>

\* a join that waits for as many reports as tasks but takes them from the
\* tasks that succeeded only: a task that failed is never heard
ScatterJoinedOnSuccess ==
    \A i \in DOMAIN tasks : tasks[i] = "done" /\ errs[i] = NoErr

ScatterJoined == \A i \in DOMAIN tasks : tasks[i] = "done"

\* a scatter that returns what its last task returned
ScatterResultLast ==
    IF DOMAIN errs = {} THEN {NoErr}
    ELSE {errs[CHOOSE i \in DOMAIN errs : \A j \in DOMAIN errs : j <= i]}

\* what scatter may return: one of the failures, or no error when there is none
ScatterResult ==
    LET failures == {errs[i] : i \in DOMAIN errs} \ {NoErr}
    IN  IF failures = {} THEN {NoErr} ELSE failures

\* scatter returns to its caller, once every task is done
ScatterReturn ==
    /\ sgState = "running"
    /\ ScatterJoined
    /\ sgErr' \in ScatterResult
    /\ sgState' = "returned"
    /\ UNCHANGED <<dsn, pc, pdbs, count, ret, sgFn, tasks, invoked, errs, call, picks>>

\* the caller of scatter has taken its result
ScatterForget ==
    /\ sgState' = "idle"
    /\ sgFn' = "none"
    /\ tasks' = NoTasks
    /\ invoked' = NoCounts
    /\ errs' = NoErrs
    /\ sgErr' = NoErr

----------------------------------------------------------------------------
(* Open *)

Init ==
    /\ dsn \in SeqsUpTo(Chars, MaxDsnLen)
    /\ pc = "start"
    /\ pdbs = [i \in {} |-> NilConn]
    /\ count = 0
    /\ ret = [db |-> NilDB, err |-> NoErr]
    /\ sgState = "idle"
    /\ sgFn = "none"
    /\ tasks = NoTasks
    /\ invoked = NoCounts
    /\ errs = NoErrs
    /\ sgErr = NoErr
    /\ call = [c \in Callers |-> Idle]
    /\ picks = <<>>

\* Open up to the scatter call: split the names, make the list, start the tasks
OpenCall ==
    /\ pc = "start"
    /\ LET conns == Split(dsn)
       IN  /\ pdbs' = [i \in Indices(Len(conns)) |-> NilConn]
           /\ ScatterStart(Len(conns), "open")
    /\ count' = 0
    /\ pc' = "opening"
    /\ UNCHANGED <<dsn, ret, call, picks>>

\* a work of Open whose tasks share one index, the last, instead of their own
OpenWorkSharedIndex(i) ==
    /\ pc = "opening"
    /\ sgFn = "open"
    /\ tasks[i] = "spawned"
    /\ \E ok \in BOOLEAN :
        /\ pdbs' = [pdbs EXCEPT ![Len0(pdbs) - 1] =
                       IF ok THEN SqlxOpen(ConnsAt(Split(dsn), i)) ELSE NilConn]
        /\ ScatterTaskDone(i, IF ok THEN NoErr ELSE Err("open", i))
    /\ UNCHANGED <<dsn, pc, count, ret, call, picks>>

\* the work of Open: db.pdbs[i], err = sqlx.Open(driverName, conns[i])
OpenWork(i) ==
    /\ pc = "opening"
    /\ sgFn = "open"
    /\ tasks[i] = "spawned"
    /\ \E ok \in BOOLEAN :
        /\ pdbs' = [pdbs EXCEPT ![i] =
                       IF ok THEN SqlxOpen(ConnsAt(Split(dsn), i)) ELSE NilConn]
        /\ ScatterTaskDone(i, IF ok THEN NoErr ELSE Err("open", i))
    /\ UNCHANGED <<dsn, pc, count, ret, call, picks>>

\* an Open that returns the DB whatever the error: return db, err
OpenResultKeepsDB(err) == [db |-> TheDB, err |-> err]

\* if err != nil { return nil, err }; return db, nil
OpenResult(err) ==
    IF err # NoErr THEN [db |-> NilDB, err |-> err] ELSE [db |-> TheDB, err |-> NoErr]

\* an Open that, failing, closes the physical dbs it did open
OpenReturnClosesOpened ==
    /\ pc = "opening"
    /\ sgState = "returned"
    /\ ret' = OpenResult(sgErr)
    /\ pc' = IF ret'.db = NilDB THEN "failed" ELSE "open"
    /\ pdbs' = IF ret'.db = NilDB
               THEN [i \in DOMAIN pdbs |->
                        IF pdbs[i] = NilConn THEN NilConn
                        ELSE [pdbs[i] EXCEPT !.closes = @ + 1]]
               ELSE pdbs
    /\ UNCHANGED <<dsn, count, sgState, sgFn, tasks, invoked, errs, sgErr, call, picks>>

\* Open returns: the DB, or nil and the error of scatter; db.pdbs is left as
\* the tasks wrote it
OpenReturn ==
    /\ pc = "opening"
    /\ sgState = "returned"
    /\ ret' = OpenResult(sgErr)
    /\ pc' = IF ret'.db = NilDB THEN "failed" ELSE "open"
    /\ UNCHANGED <<dsn, pdbs, count, sgState, sgFn, tasks, invoked, errs, sgErr, call, picks>>

----------------------------------------------------------------------------
(* Close and Ping: return scatter(len(db.pdbs), ...) *)

CloseCall ==
    /\ pc = "open"
    /\ ScatterStart(Len0(pdbs), "close")
    /\ pc' = "closing"
    /\ UNCHANGED <<dsn, pdbs, count, ret, call, picks>>

\* a Close whose work pings instead of closing
CloseWorkPings(i) ==
    /\ pc = "closing"
    /\ sgFn = "close"
    /\ tasks[i] = "spawned"
    /\ \E ok \in BOOLEAN : ScatterTaskDone(i, IF ok THEN NoErr ELSE Err("close", i))
    /\ UNCHANGED <<dsn, pc, pdbs, count, ret, call, picks>>

\* the work of Close: db.pdbs[i].Close()
CloseWork(i) ==
    /\ pc = "closing"
    /\ sgFn = "close"
    /\ tasks[i] = "spawned"
    /\ pdbs' = [pdbs EXCEPT ![i].closes = @ + 1]
    /\ \E ok \in BOOLEAN : ScatterTaskDone(i, IF ok THEN NoErr ELSE Err("close", i))
    /\ UNCHANGED <<dsn, pc, count, ret, call, picks>>

\* a Close that does not wait for scatter: go scatter(...); return nil
CloseReturnNoWait ==
    /\ pc = "closing"
    /\ pc' = "closed"
    /\ UNCHANGED <<dsn, pdbs, count, ret, sg, call, picks>>

\* Close returns what scatter returned
CloseReturn ==
    /\ pc = "closing"
    /\ sgState = "returned"
    /\ pc' = "closed"
    /\ UNCHANGED <<dsn, pdbs, count, ret, sgState, sgFn, tasks, invoked, errs, sgErr, call, picks>>

PingCall ==
    /\ pc = "open"
    /\ ScatterStart(Len0(pdbs), "ping")
    /\ pc' = "pinging"
    /\ UNCHANGED <<dsn, pdbs, count, ret, call, picks>>

\* the work of Ping: db.pdbs[i].Ping()
PingWork(i) ==
    /\ pc = "pinging"
    /\ sgFn = "ping"
    /\ tasks[i] = "spawned"
    /\ \E ok \in BOOLEAN : ScatterTaskDone(i, IF ok THEN NoErr ELSE Err("ping", i))
    /\ UNCHANGED <<dsn, pc, pdbs, count, ret, call, picks>>

\* Ping returns what scatter returned, and the main goroutine goes on
PingReturn ==
    /\ pc = "pinging"
    /\ sgState = "returned"
    /\ ScatterForget
    /\ pc' = "open"
    /\ UNCHANGED <<dsn, pdbs, count, ret, call, picks>>

----------------------------------------------------------------------------
(* The pool settings: for i := range db.pdbs { db.pdbs[i].Set...(n) }      *)
(* A physical db keeps the last pool setting it was given.                 *)

SetAll(fn, n) == [i \in DOMAIN pdbs |-> [pdbs[i] EXCEPT !.pool = [fn |-> fn, n |-> n]]]

SetMaxIdleConns(n) ==
    /\ pc = "open"
    /\ pdbs' = SetAll("SetMaxIdleConns", n)
    /\ UNCHANGED <<dsn, pc, count, ret, sg, call, picks>>

SetMaxOpenConns(n) ==
    /\ pc = "open"
    /\ pdbs' = SetAll("SetMaxOpenConns", n)
    /\ UNCHANGED <<dsn, pc, count, ret, sg, call, picks>>

SetConnMaxLifetime(n) ==
    /\ pc = "open"
    /\ pdbs' = SetAll("SetConnMaxLifetime", n)
    /\ UNCHANGED <<dsn, pc, count, ret, sg, call, picks>>

-----
(* Master, Slave and the counter *)

\* a Master that returns the last physical db
MasterLast(p) == Len0(p) - 1

\* Master: the index of the physical db it returns, db.pdbs[0]
Master(p) == 0

\* a load in place of the add: atomic.LoadUint64(&db.count)
LoadUint64(c, delta) == c

\* an add that counts a selection twice
AddTwice(c, delta) == (c + delta + delta) % Modulus

\* an add that stays at the largest value instead of wrapping
AddSaturating(c, delta) ==
    IF c + delta >= Modulus THEN Modulus - 1 ELSE c + delta

\* atomic.AddUint64(&db.count, delta): the new value
AddUint64(c, delta) == (c + delta) % Modulus

\* a slave that spreads over all n physical dbs, the master included
slaveOverAll(n, c) ==
    IF n <= 1 THEN [idx |-> 0, count |-> c]
    ELSE LET v == (c + 1) % Modulus
         IN  [idx |-> v % n, count |-> v]

\* a slave that uses the counter as it was before the add
slaveBeforeAdd(n, c) ==
    IF n <= 1 THEN [idx |-> 0, count |-> c]
    ELSE [idx |-> 1 + (c % (n - 1)), count |-> (c + 1) % Modulus]

\* a slave that adds to the counter before it looks at n
slaveAlwaysAdds(n, c) ==
    LET v == (c + 1) % Modulus
    IN  IF n <= 1 THEN [idx |-> 0, count |-> v]
        ELSE [idx |-> 1 + (v % (n - 1)), count |-> v]

\* slave(n) with the counter at c: the index returned and the counter afterwards
slave(n, c) ==
    IF n <= 1 THEN [idx |-> 0, count |-> c]
    ELSE LET v == AddUint64(c, 1)
         IN  [idx |-> 1 + (v % (n - 1)), count |-> v]

\* Slave: the index of the physical db it returns, db.pdbs[db.slave(len(db.pdbs))]
Slave(p, c) == slave(Len0(p), c)

----------------------------------------------------------------------------
(* The routed operations.  A caller first picks the physical db (for a     *)
(* read, with one atomic add on the counter), then makes its call on it.   *)

WriteOps == {"Driver", "Begin", "Exec", "Preparex", "Master"}
ReadOps == {"Slave", "PreparexSlave", "Select", "QueryxSlave"}

\* the caller holds the DB that Open returned, and Close has not returned
CanCall(c) ==
    /\ ret.db = TheDB
    /\ pc \in {"open", "pinging", "closing"}
    /\ call[c].pc = "idle"

Routed(c, op, target) ==
    call' = [call EXCEPT ![c] = [pc |-> "routed", op |-> op, target |-> target]]

\* a write-path call that goes through the counter as the reads do
OnMasterCounts(c, op, target) ==
    /\ CanCall(c)
    /\ Routed(c, op, target)
    /\ count' = (count + 1) % Modulus
    /\ UNCHANGED <<dsn, pc, pdbs, ret, sg, picks>>

OnMaster(c, op, target) ==
    /\ CanCall(c)
    /\ Routed(c, op, target)
    /\ UNCHANGED <<dsn, pc, pdbs, count, ret, sg, picks>>

OnSlave(c, op) ==
    /\ CanCall(c)
    /\ Len(picks) < MaxSelects
    /\ LET s == Slave(pdbs, count)
       IN  /\ count' = s.count
           /\ picks' = Append(picks, [val |-> s.count, idx |-> s.idx])
           /\ Routed(c, op, s.idx)
    /\ UNCHANGED <<dsn, pc, pdbs, ret, sg>>

Driver(c) == OnMaster(c, "Driver", 0)
Begin(c) == OnMaster(c, "Begin", 0)
Exec(c) == OnMaster(c, "Exec", 0)
Preparex(c) == OnMaster(c, "Preparex", Master(pdbs))
MasterCall(c) == OnMaster(c, "Master", Master(pdbs))
SlaveCall(c) == OnSlave(c, "Slave")
PreparexSlave(c) == OnSlave(c, "PreparexSlave")
Select(c) == OnSlave(c, "Select")
QueryxSlave(c) == OnSlave(c, "QueryxSlave")

\* Master and Slave hand out a physical db and call nothing on it
HandleOps == {"Master", "Slave"}
\* what a call on a physical db can answer; Driver() has no error to return
CallResults == {"ok", "err"}
Answers(op) == IF op = "Driver" THEN {"ok"} ELSE CallResults

\* a caller whose operation returned: the calls it made on physical dbs, what
\* the last of them answered, and what the operation returned
Returned(calls, got, res) ==
    [pc |-> "idle", calls |-> calls, got |-> got, res |-> res]

\* an operation that answers nil whatever the physical db answered
ForwardNil(r) == "ok"

\* `return db.pdbs[i].X(...)`: the answer of the physical db is the result
Forward(r) == r

\* an operation that, failing on its physical db, makes the call once more
DeliverRetries(c) ==
    /\ call[c].pc = "routed"
    /\ call[c].target \in DOMAIN pdbs
    /\ \/ /\ call[c].op \in HandleOps
          /\ call' = [call EXCEPT ![c] = Idle]
       \/ /\ call[c].op \notin HandleOps
          /\ \E r, r2 \in Answers(call[c].op) :
                call' = [call EXCEPT ![c] =
                            IF r = "err" THEN Returned(2, r2, Forward(r2))
                            ELSE Returned(1, r, Forward(r))]
    /\ UNCHANGED <<dsn, pc, pdbs, count, ret, sg, picks>>

\* the operation returns to the caller: Master and Slave with the physical db
\* chosen, every other one with the answer of its one call on that physical db
Deliver(c) ==
    /\ call[c].pc = "routed"
    /\ call[c].target \in DOMAIN pdbs
    /\ \/ /\ call[c].op \in HandleOps
          /\ call' = [call EXCEPT ![c] = Idle]
       \/ /\ call[c].op \notin HandleOps
          /\ \E r \in Answers(call[c].op) :
                call' = [call EXCEPT ![c] = Returned(1, r, Forward(r))]
    /\ UNCHANGED <<dsn, pc, pdbs, count, ret, sg, picks>>

----------------------------------------------------------------------------

Next ==
    \/ OpenCall
    \/ \E i \in DOMAIN tasks : OpenWork(i)
    \/ ScatterReturn
    \/ OpenReturn
    \/ CloseCall
    \/ \E i \in DOMAIN tasks : CloseWork(i)
    \/ CloseReturn
    \/ PingCall
    \/ \E i \in DOMAIN tasks : PingWork(i)
    \/ PingReturn
    \/ \E v \in PoolValues : SetMaxIdleConns(v)
    \/ \E v \in PoolValues : SetMaxOpenConns(v)
    \/ \E v \in PoolValues : SetConnMaxLifetime(v)
    \/ \E c \in Callers : Driver(c)
    \/ \E c \in Callers : Begin(c)
    \/ \E c \in Callers : Exec(c)
    \/ \E c \in Callers : Preparex(c)
    \/ \E c \in Callers : MasterCall(c)
    \/ \E c \in Callers : SlaveCall(c)
    \/ \E c \in Callers : PreparexSlave(c)
    \/ \E c \in Callers : Select(c)
    \/ \E c \in Callers : QueryxSlave(c)
    \/ \E c \in Callers : Deliver(c)

Spec == Init /\ [][Next]_vars

----------------------------------------------------------------------------
(* The routed operations alone, on a DB that Open has returned and whose   *)
(* counter has any value: a DB that has served any number of reads.        *)

InitRouting ==
    /\ dsn \in SeqsUpTo(Chars, MaxRoutingDsnLen)
    /\ pc = "open"
    /\ pdbs = [i \in Indices(Len(Split(dsn))) |-> SqlxOpen(ConnsAt(Split(dsn), i))]
    /\ count \in 0 .. (Modulus - 1)
    /\ ret = OpenResult(NoErr)
    /\ sgState = "returned"
    /\ sgFn = "open"
    /\ tasks = [i \in Indices(Len(Split(dsn))) |-> "done"]
    /\ invoked = [i \in Indices(Len(Split(dsn))) |-> 1]
    /\ errs = [i \in Indices(Len(Split(dsn))) |-> NoErr]
    /\ sgErr = NoErr
    /\ call = [c \in Callers |-> Idle]
    /\ picks = <<>>

NextRouting ==
    \/ \E c \in Callers : Driver(c)
    \/ \E c \in Callers : Begin(c)
    \/ \E c \in Callers : Exec(c)
    \/ \E c \in Callers : Preparex(c)
    \/ \E c \in Callers : MasterCall(c)
    \/ \E c \in Callers : SlaveCall(c)
    \/ \E c \in Callers : PreparexSlave(c)
    \/ \E c \in Callers : Select(c)
    \/ \E c \in Callers : QueryxSlave(c)
    \/ \E c \in Callers : Deliver(c)

SpecRouting == InitRouting /\ [][NextRouting]_vars

-----------------------------------------------------------------------------
(* One run of scatter on its own, Run(count, work), for every count from 0 *)
(* and work that fails or succeeds, and that may never complete: no step   *)
(* of a task is fair. Only the return of scatter is.                       *)

NoConns == [i \in {} |-> NilConn]

InitScatter ==
    /\ dsn = <<>>
    /\ pc = "run"
    /\ pdbs = NoConns
    /\ count = 0
    /\ ret = [db |-> NilDB, err |-> NoErr]
    /\ call = [c \in Callers |-> Idle]
    /\ picks = <<>>
    /\ \E n \in 0 .. MaxTasks :
        /\ sgState = "running"
        /\ sgFn = "work"
        /\ tasks = [i \in Indices(n) |-> "spawned"]
        /\ invoked = [i \in Indices(n) |-> 0]
        /\ errs = [i \in Indices(n) |-> NoErr]
        /\ sgErr = NoErr

\* work(i) completes, with an error or without
RunWork(i) ==
    /\ pc = "run"
    /\ sgState = "running"
    /\ i \in DOMAIN tasks
    /\ tasks[i] = "spawned"
    /\ \E ok \in BOOLEAN : ScatterTaskDone(i, IF ok THEN NoErr ELSE Err("work", i))
    /\ UNCHANGED <<dsn, pc, pdbs, count, ret, call, picks>>

NextScatter ==
    \/ \E i \in Indices(MaxTasks) : RunWork(i)
    \/ ScatterReturn

SpecScatter == InitScatter /\ [][NextScatter]_vars /\ WF_vars(ScatterReturn)

----------------------------------------------------------------------------
(* Properties *)

NumPdbs == Len0(pdbs)
InFlight(c) == call[c].pc = "routed"
Reading(c) == InFlight(c) /\ call[c].op \in ReadOps
Writing(c) == InFlight(c) /\ call[c].op \in WriteOps

\* C1: every write-path operation (Driver, Begin, Exec, Preparex) and Master
\* is made on the physical db at index 0 and on no other, whatever the number
\* of physical dbs, the counter and the reads in flight beside it.
C1_WritesTargetMaster ==
    \A c \in Callers : Writing(c) => call[c].target = 0

\* a Preparex in flight on a DB with two slaves while a read is in flight on
\* a slave, the counter having moved
C1_Witness ==
    /\ NumPdbs = 3
    /\ count > 0
    /\ \E c, d \in Callers :
        /\ Writing(c) /\ call[c].op = "Preparex"
        /\ Reading(d) /\ call[d].target = 2

\* C2: the index slave(n) picks lies in 0 .. n-1; it is 0 on every call when
\* n = 1, and lies in 1 .. n-1 when n > 1, for every value of the counter.
C2_SlaveIndexInRange ==
    /\ \A k \in 1 .. Len(picks) :
        /\ picks[k].idx \in 0 .. (NumPdbs - 1)
        /\ NumPdbs = 1 => picks[k].idx = 0
        /\ NumPdbs > 1 => picks[k].idx \in 1 .. (NumPdbs - 1)
    /\ \A c \in Callers : Reading(c) =>
        /\ call[c].target \in DOMAIN pdbs
        /\ NumPdbs = 1 => call[c].target = 0
        /\ NumPdbs > 1 => call[c].target # 0

\* selections on a DB with slaves that took the counter over its wrap
C2_Witness ==
    /\ NumPdbs = 3
    /\ Len(picks) = MaxSelects
    /\ picks[1].val = Modulus - 1
    /\ count = MaxSelects - 2

C4_NoLostIncrement ==
    (NumPdbs > 1 /\ Len(picks) < Modulus) =>
        /\ count = Len(picks)
        /\ \A k \in 1 .. Len(picks) : picks[k].val = k
        /\ \A j, k \in 1 .. Len(picks) : j # k => picks[j].val # picks[k].val
        /\ \A k \in 1 .. Len(picks) : picks[k].idx \in 1 .. (NumPdbs - 1)

\* every caller has a read in flight at once, on a DB with slaves
C4_Witness ==
    /\ NumPdbs > 1
    /\ \A c \in Callers : Reading(c)
    /\ Len(picks) = Cardinality(Callers)
    /\ \E c, d \in Callers : call[c].target # call[d].target

\* The segments of the input, read off the positions of its separators.
SepIdx(s) == {k \in 1 .. Len(s) : s[k] = Sep}
NumSeps(s) == Cardinality(SepIdx(s))
SepAt(s, i) ==
    IF i = 0 THEN 0
    ELSE IF i > NumSeps(s) THEN Len(s) + 1
    ELSE CHOOSE k \in SepIdx(s) : Cardinality({j \in SepIdx(s) : j <= k}) = i
Segment(s, i) == SubSeq(s, SepAt(s, i) + 1, SepAt(s, i + 1) - 1)

Failed(i) == errs[i] # NoErr
OpenHasReturned == pc \notin {"start", "opening"}

\* C5: scatter invokes fn(i) exactly once for each index; it returns no
\* error if and only if every fn(i) succeeded, and otherwise the error it
\* returns is the error of one of the invocations that failed.
C5_ScatterResult ==
    /\ \A i \in DOMAIN invoked : invoked[i] <= 1
    /\ sgState = "returned" =>
        /\ \A i \in DOMAIN invoked : invoked[i] = 1
        /\ sgErr = NoErr <=> \A i \in DOMAIN errs : ~Failed(i)
        /\ sgErr # NoErr => \E i \in DOMAIN errs : Failed(i) /\ errs[i] = sgErr

\* a fan-out over three physical dbs returned, two invocations having failed
C5_Witness ==
    /\ sgState = "returned"
    /\ DOMAIN errs = 0 .. 2
    /\ Failed(0) /\ ~Failed(1) /\ Failed(2)
    /\ sgErr = errs[2]

\* C6: scatter, and so Open, Ping and Close, does not return before every
\* invocation has completed, also when one has failed already: no
\* invocation is left in flight or dropped.
C6_ReturnAfterAll ==
    /\ sgState = "returned" =>
        \A i \in DOMAIN tasks : tasks[i] = "done" /\ invoked[i] = 1
    /\ pc \in {"open", "failed", "closed"} =>
        /\ sgState # "running"
        /\ \A i \in DOMAIN tasks : tasks[i] = "done"

\* Close has returned; the close of the master had failed
C6_Witness ==
    /\ pc = "closed"
    /\ NumPdbs = 3
    /\ Failed(0) /\ ~Failed(1) /\ ~Failed(2)
    /\ \A i \in DOMAIN tasks : tasks[i] = "done"

\* C7: if one of the physical opens fails, Open returns an error and no DB:
\* a caller never holds a DB with a slot that is unset.
C7_OpenFailsWhole ==
    /\ ~OpenHasReturned => ret.db = NilDB
    /\ OpenHasReturned =>
        ((\E i \in DOMAIN pdbs : pdbs[i] = NilConn) =>
            (ret.db = NilDB /\ ret.err # NoErr))
    /\ ret.db = TheDB => \A i \in DOMAIN pdbs : pdbs[i] # NilConn /\ ~pdbs[i].nil

\* Open has returned after one open failed and another succeeded
C7_Witness ==
    /\ pc = "failed"
    /\ \E i, j \in DOMAIN pdbs : pdbs[i] = NilConn /\ pdbs[j] # NilConn
    /\ ret.db = NilDB
    /\ ret.err # NoErr

\* C8: when Open succeeds, the physical db at position i is the one opened
\* from the i-th segment of the input, in whatever order the opens ended;
\* position 0 is the one of the first segment.
C8_OrderPreserved ==
    ret.db = TheDB =>
        /\ DOMAIN pdbs = 0 .. NumSeps(dsn)
        /\ \A i \in DOMAIN pdbs : pdbs[i].dsn = Segment(dsn, i)

\* Open succeeded on two names that differ
C8_Witness ==
    /\ ret.db = TheDB
    /\ NumPdbs = 2
    /\ pdbs[0].dsn = <<>>
    /\ pdbs[1].dsn = <<"a">>

\* C9: Close issues one close on every physical db, also when some of them
\* fail, and returns an error if and only if at least one close failed.
C9_CloseAll ==
    ret.db = TheDB =>
        /\ \A i \in DOMAIN pdbs : pdbs[i].closes <= 1
        /\ pc = "closed" =>
            /\ \A i \in DOMAIN pdbs : pdbs[i].closes = 1
            /\ sgFn = "close"
            /\ sgErr # NoErr <=> \E i \in DOMAIN errs : Failed(i)

\* Close has returned an error; two of three closes had failed
C9_Witness ==
    /\ pc = "closed"
    /\ NumPdbs = 3
    /\ Failed(0) /\ Failed(1) /\ ~Failed(2)
    /\ sgErr # NoErr
    /\ \A i \in DOMAIN pdbs : pdbs[i].closes = 1

\* C10: a DB that Open returned has n >= 1 physical dbs, n the number of
\* segments of the input, and after any operations on it (reads, writes,
\* Ping, pool settings, Close) it still has n, the first one the master.
C10_LengthFixed ==
    ret.db = TheDB =>
        /\ NumPdbs >= 1
        /\ NumPdbs = NumSeps(dsn) + 1
        /\ DOMAIN pdbs = 0 .. (NumPdbs - 1)
        /\ pdbs[0] # NilConn
        /\ pdbs[0].dsn = Segment(dsn, 0)

\* a DB with two slaves that has served reads, was tuned and is closed
C10_Witness ==
    /\ pc = "closed"
    /\ NumPdbs = 3
    /\ Len(picks) > 0
    /\ pdbs[0].pool.fn = "SetMaxIdleConns"
    /\ pdbs[0].closes = 1

\* a step in which slave() made a selection
Selects == Len(picks') = Len(picks) + 1
\* a step in which caller c starts a read
StartsRead(c) == ~InFlight(c) /\ call'[c].pc = "routed" /\ call'[c].op \in ReadOps

\* C11 as stated: every selection, for every n >= 1, adds one to the counter
C11_AsStated ==
    [][Selects => count' = (count + 1) % Modulus]_vars

\* C11: each Slave, Select, QueryxSlave or PreparexSlave makes exactly one
\* selection; with n > 1 the selection adds exactly one to the counter
\* (modulo its width), and with n = 1 it leaves the counter as it is.
C11_OneSelectionPerRead ==
    [][/\ \A c \in Callers : StartsRead(c) => Selects
       /\ Selects => \E c \in Callers : StartsRead(c)
       /\ Selects =>
            /\ Len(picks') = Len(picks) + 1
            /\ SubSeq(picks', 1, Len(picks)) = picks
            /\ count' = IF NumPdbs > 1 THEN (count + 1) % Modulus ELSE count
       /\ count' # count => Selects]_vars

\* on a DB with slaves, a selection has just taken the counter over its wrap
C11_Witness ==
    /\ NumPdbs = 3
    /\ Len(picks) = 2
    /\ picks[1].val = Modulus - 1
    /\ picks[2].val = 0
    /\ count = 0

\* a step in which caller c starts a write-path operation or Master
StartsWrite(c) == ~InFlight(c) /\ call'[c].pc = "routed" /\ call'[c].op \in WriteOps

\* C12: the counter changes only in a step that makes a selection, and then
\* by one more (modulo its width): it is never reset and never goes down
\* otherwise. Driver, Begin, Exec, Preparex and Master, the steps of Open,
\* Ping and Close, the pool settings and the return of a call leave the
\* counter and the selections made so far as they are, so the indices the
\* reads receive do not depend on the writes among them.
C12_CounterFrame ==
    [][/\ count' # count => (Selects /\ count' = (count + 1) % Modulus)
       /\ picks' # picks => Selects
       /\ \A c \in Callers : StartsWrite(c) => (count' = count /\ picks' = picks)
       /\ (pc' # pc \/ sg' # sg \/ pdbs' # pdbs \/ ret' # ret) =>
              (count' = count /\ picks' = picks)
       /\ (\E c \in Callers : InFlight(c) /\ ~InFlight(c)') =>
              (count' = count /\ picks' = picks)]_vars

\* the counter still stands at two after two reads although a write is in
\* flight, the pools were set, and Close has run
C12_Witness ==
    /\ pc = "closed"
    /\ NumPdbs = 3
    /\ count = 2
    /\ Len(picks) = 2
    /\ pdbs[0].pool.fn = "SetConnMaxLifetime"
    /\ \E c \in Callers : Writing(c) /\ call[c].op = "Exec"

\* a step in which the operation caller c had in flight returns to it
Returns(c) == InFlight(c) /\ call'[c].pc = "idle"

\* C13: a routed operation is in flight on one physical db, an index of pdbs,
\* and when it returns it has made one call on that physical db and no
\* other call, and its result is what that call answered, an error included:
\* nothing is retried and no other physical db is tried. Master and Slave
\* return the physical db and call nothing.
C13_OneCallResultForwarded ==
    /\ [](\A c \in Callers : InFlight(c) => call[c].target \in DOMAIN pdbs)
    /\ [][\A c \in Callers : Returns(c) =>
            /\ pdbs' = pdbs /\ count' = count /\ picks' = picks
            /\ \A d \in Callers \ {c} : call'[d] = call[d]
            /\ call[c].op \in HandleOps => call'[c] = Idle
            /\ call[c].op \notin HandleOps =>
                /\ call'[c].calls = 1
                /\ call'[c].got \in Answers(call[c].op)
                /\ call'[c].res = call'[c].got]_vars

\* on a DB with two slaves one caller's operation returned the error of its
\* one call, the other's returned without error, reads having been made
C13_Witness ==
    /\ NumPdbs = 3
    /\ Len(picks) >= 2
    /\ \E c, d \in Callers :
        /\ call[c] = Returned(1, "err", "err")
        /\ call[d] = Returned(1, "ok", "ok")

\* the slave after slave r in the rotation over 1 .. n-1
NextInRotation(r, n) == IF r = n - 1 THEN 1 ELSE r + 1
\* the k+1-st selection is the one whose add wrapped the counter to 0
Wraps(k) == picks[k].val = Modulus - 1 /\ picks[k + 1].val = 0

Pending(i) == i \in DOMAIN tasks /\ tasks[i] # "done"

\* C15: the return of scatter being weakly fair, Run(count, work) returns
\* in the end if every work(i) completes in the end, whatever the count
\* from 0 up and whichever tasks fail; with count = 0 it returns no error
\* and has run no task; and if some work(i) never completes Run never
\* returns.
C15_RunReturns ==
    /\ (\A i \in Indices(MaxTasks) : <>(~Pending(i))) => <>(sgState = "returned")
    /\ []((sgState = "returned" /\ DOMAIN tasks = {}) =>
            (sgErr = NoErr /\ DOMAIN invoked = {}))
    /\ (\E i \in Indices(MaxTasks) : [](Pending(i))) => [](sgState # "returned")

\* a run of MaxTasks tasks has returned, the first and the last having failed
C15_Witness ==
    /\ pc = "run"
    /\ sgState = "returned"
    /\ DOMAIN tasks = Indices(MaxTasks)
    /\ {i \in DOMAIN errs : errs[i] # NoErr} = {0, MaxTasks - 1}
    /\ sgErr = Err("work", MaxTasks - 1)

\* the number of selections made so far that returned slave r
Picked(r) == Cardinality({k \in 1 .. Len(picks) : picks[k].idx = r})
\* no add of a selection made so far wrapped the counter
NoOverflow == \A k \in 1 .. Len(picks) : picks[k].val # 0

\* C16: with n > 1 and no overflow of the counter, whatever the value the
\* counter started from and however the reads of the callers interleave,
\* the numbers of selections any two slaves have received differ by at most
\* one, at every moment and so once every read has returned.
C16_ExactBalance ==
    (NumPdbs > 1 /\ NoOverflow) =>
        \A r1, r2 \in 1 .. (NumPdbs - 1) : Picked(r1) - Picked(r2) <= 1

\* both callers have read and every read has returned: three selections
\* over two slaves, two for one and one for the other
C16_Witness ==
    /\ NumPdbs = 3
    /\ NoOverflow
    /\ Len(picks) = 3
    /\ \A c \in Callers : call[c].pc = "idle" /\ call[c] # Idle
    /\ {Picked(1), Picked(2)} = {1, 2}

\* caller c has used the DB: an operation of its is in flight or has returned
HasUsed(c) == InFlight(c) \/ call[c] # Idle

\* C17: while a scatter runs, a slot of pdbs changes only in the step of the
\* task of that slot, and the step of a task changes no other slot and no
\* other task; Open's task i writes slot i once. No caller uses the DB
\* before Open has joined its tasks and returned it, and the DB Open returns
\* has every slot written with an opened physical db.
C17_TasksOwnTheirSlot ==
    /\ [][(sgState = "running" /\ sgState' = "running") =>
            \A j \in DOMAIN tasks :
                /\ pdbs'[j] # pdbs[j] =>
                        (tasks[j] = "spawned" /\ tasks'[j] = "done")
                /\ tasks'[j] # tasks[j] =>
                        \A k \in DOMAIN tasks \ {j} :
                            pdbs'[k] = pdbs[k] /\ tasks'[k] = tasks[k]]_vars
    /\ [](pc = "opening" =>
            /\ ret.db = NilDB
            /\ \A c \in Callers : ~HasUsed(c)
            /\ \A i \in DOMAIN tasks :
                /\ invoked[i] = IF tasks[i] = "done" THEN 1 ELSE 0
                /\ tasks[i] = "spawned" => pdbs[i] = NilConn)
    /\ []((ret.db = TheDB \/ \E c \in Callers : HasUsed(c)) =>
            /\ pc \notin {"start", "opening", "failed"}
            /\ \A i \in DOMAIN pdbs : pdbs[i] # NilConn /\ ~pdbs[i].nil)

\* Open's tasks under way on three slots: the middle one has written its
\* slot, the other two have not run yet, and no caller has the DB
C17_Witness ==
    /\ pc = "opening"
    /\ sgState = "running"
    /\ DOMAIN tasks = {0, 1, 2}
    /\ tasks[0] = "spawned" /\ tasks[1] = "done" /\ tasks[2] = "spawned"
    /\ pdbs[0] = NilConn /\ ~pdbs[1].nil /\ pdbs[2] = NilConn

\* the physical dbs of the slots whose open succeeded
Opened == {i \in DOMAIN pdbs : pdbs[i] # NilConn}

\* C18: once Open has failed, every physical db whose open succeeded is
\* still open, Close never having been called on it, in every state from
\* then on: the caller was returned nil, holds no DB, and no operation on
\* the DB can be made, Close included.
C18_OpenedLeakOnFailure ==
    pc = "failed" =>
        /\ ret.db = NilDB /\ ret.err # NoErr
        /\ \A i \in DOMAIN pdbs : pdbs[i] = NilConn <=> Failed(i)
        /\ \A i \in Opened : ~pdbs[i].nil /\ pdbs[i].closes = 0
        /\ \A c \in Callers : ~HasUsed(c)
        /\ ~ENABLED CloseCall
        /\ \A c \in Callers : ~CanCall(c)

\* Open has failed on its middle slot: the master and the last slave are
\* open and nobody holds them
C18_Witness ==
    /\ pc = "failed"
    /\ DOMAIN pdbs = {0, 1, 2}
    /\ Opened = {0, 2}
    /\ pdbs[0].closes = 0 /\ pdbs[2].closes = 0
    /\ ret.db = NilDB

====
